---- MODULE Spec2Model ----
(***************************************************************************)
(* Model of the loom engine: the Orchestrator poll loop                    *)
(* (packages/engine/src/orchestrator.ts), the rows it keeps in the repos,  *)
(* tasks and agent_runs tables, and the AgentRunner (agent.ts).            *)
(*                                                                         *)
(* JavaScript runs one synchronous segment at a time: an async function    *)
(* runs without interruption up to its next `await`.  Every action below   *)
(* is one such segment of one loop() activation (or one call of start() /  *)
(* stop()); the pc of a loop names the promise it is awaiting.             *)
(*                                                                         *)
(* Spec is the Orchestrator on an empty store, SpecStore the Orchestrator  *)
(* on a store that an earlier run left, SpecFair the Orchestrator started  *)
(* once under fair scheduling, and SpecFn the functions runAgent,          *)
(* executeAgent, prepareWorkDir and submitPullRequest called on their own. *)
(***************************************************************************)
EXTENDS Integers, Sequences, FiniteSets, TLC

\* ------------------------------------------------------------------ bounds
MaxLoops == 2       \* loop() activations that start() may spawn
MaxRuns == 2        \* rows of agent_runs inserted in one behaviour
MaxCycles == 2      \* poll cycles begun in one behaviour (over all loops)

\* ----------------------------------------------------------- configuration
\* EngineConfig.repos: the watched repositories, in configuration order.
Repos ==
  << [owner |-> "acme", repo |-> "api", label |-> "loom"],
     [owner |-> "acme", repo |-> "web", label |-> "loom"] >>

\* What listIssues returns for each configured repository: the numbers of its
\* open labelled issues.  A behaviour has one of these listings: two issues
\* in the first repository and none in the second, or the same issue number
\* in both repositories.
Listings == { << <<1, 2>>, <<>> >>, << <<1>>, <<1>> >> }

Loops == 1..MaxLoops

VARIABLES
  running,    \* Orchestrator.running
  repos,      \* rows of table repos      (id = position)
  tasks,      \* rows of table tasks      (id = position)
  agentRuns,  \* rows of table agent_runs (id = position)
  workDirs,   \* directories under config.workDir that a clone has filled
  pulls,      \* pull requests opened on GitHub (number = position)
  loop,       \* the loop() activations: what each is awaiting and its locals
  cycles,     \* number of poll cycles begun so far
  issues,     \* the open labelled issues on GitHub, per configured repository
  call        \* a function of the engine called on its own: its input, then
              \* what it returned; NoCall while the Orchestrator runs

vars == <<running, repos, tasks, agentRuns, workDirs, pulls, loop, cycles, issues, call>>

\* ------------------------------------------------------------------ helpers
\* The fields of a loop: pc, the promise it awaits; ri, ii, the positions of
\* the for loops of poll() and processRepo(); repoId, taskId, runId, the
\* locals of handleIssue / runAgentForTask (0 outside their scope); output,
\* the output of the agent, which submitPullRequest holds across its await.
NoLoop == [pc |-> "none", ri |-> 0, ii |-> 0, repoId |-> 0, taskId |-> 0, runId |-> 0,
           output |-> <<>>]

\* loop() suspended in `await sleep(pollIntervalMs)`
Sleeping == [NoLoop EXCEPT !.pc = "sleep"]

\* loop() returned
Returned == [NoLoop EXCEPT !.pc = "done"]

\* no function is called on its own
NoCall == [fn |-> "none"]

\* pcs at which a loop is inside poll()
CyclePcs == {"list", "handle", "label", "comment", "branch", "pr", "closing"}

\* pcs at which handleIssue has dispatched a Task and has not returned
DispatchPcs == {"label", "comment", "branch", "pr", "closing"}

\* pcs at which runAgentForTask has created its AgentRun and has not returned
RunPcs == {"branch", "pr", "closing"}

InCycle(l) == loop[l].pc \in CyclePcs

IssueAt(l) == issues[loop[l].ri][loop[l].ii]

RunsOf(ars, t) == {r \in 1..Len(ars) : ars[r].taskId = t}

\* the number of rows of agent_runs inserted since the engine was started:
\* started_at is "now" for them and "earlier" for the rows found in the store
RunsStarted(ars) == Cardinality({r \in 1..Len(ars) : ars[r].startedAt = "now"})

\* config.workDir
WorkDir == "/tmp/loom-agent"

\* join(workDir, `${owner}-${repo}-${issue.number}`)
repoDir(cfg, n) == WorkDir \o "/" \o cfg.owner \o "-" \o cfg.repo \o "-" \o ToString(n)

\* ------------------------------------------------------------ upsertRepo
\* upsertRepo without its lookup
upsertRepo_insertsAlways(rows, cfg) ==
  [rows |-> Append(rows, [owner |-> cfg.owner, name |-> cfg.repo, watchLabel |-> cfg.label]),
   id |-> Len(rows) + 1]

upsertRepo(rows, cfg) ==
  LET found == {i \in 1..Len(rows) : rows[i].owner = cfg.owner /\ rows[i].name = cfg.repo}
  IN  IF found # {}
        THEN [rows |-> rows, id |-> CHOOSE i \in found : \A j \in found : i <= j]
        ELSE [rows |-> Append(rows, [owner |-> cfg.owner, name |-> cfg.repo,
                                     watchLabel |-> cfg.label]),
              id |-> Len(rows) + 1]

\* processRepo up to `await listIssues(...)`; past the last repository poll()
\* returns and loop() goes on to `await sleep(...)`.
EnterRepo(l, ri) ==
  IF ri > Len(Repos)
    THEN /\ loop' = [loop EXCEPT ![l] = Sleeping]
         /\ repos' = repos
    ELSE LET up == upsertRepo(repos, Repos[ri])
         IN  /\ repos' = up.rows
             /\ loop' = [loop EXCEPT ![l] = [NoLoop EXCEPT !.pc = "list", !.ri = ri,
                                                           !.repoId = up.id]]

\* handleIssue returned normally: the for loop of processRepo goes on.
NextIssue(l) ==
  IF loop[l].ii < Len(issues[loop[l].ri])
    THEN /\ loop' = [loop EXCEPT ![l] = [NoLoop EXCEPT !.pc = "handle", !.ri = loop[l].ri,
                                                       !.ii = loop[l].ii + 1,
                                                       !.repoId = loop[l].repoId]]
         /\ repos' = repos
    ELSE EnterRepo(l, loop[l].ri + 1)

\* poll() without its try/catch: the exception leaves poll() and ends the cycle
AbortRepo_uncaught(l) ==
  /\ loop' = [loop EXCEPT ![l] = Sleeping]
  /\ repos' = repos

\* an exception left processRepo: caught by the try/catch of poll(), whose
\* for loop goes on with the next repository.
AbortRepo(l) == EnterRepo(l, loop[l].ri + 1)

\* ------------------------------------------------------------ loop / poll
\* loop() without its try/catch: the rejection of poll() ends loop()
loopCatch_missing == Returned

\* the catch of loop(): the error is logged and the loop goes to sleep
loopCatch == Sleeping

\* One iteration of `while (this.running)`, entered with the condition true:
\* poll() creates the client and enters the first repository.
BeginCycle(l, clientOk) ==
  /\ cycles < MaxCycles
  /\ cycles' = cycles + 1
  /\ IF clientOk
       THEN EnterRepo(l, 1)
       ELSE \* createClient throws: poll() rejects
            /\ loop' = [loop EXCEPT ![l] = loopCatch]
            /\ repos' = repos

\* start() without its guard
alreadyRunning_unchecked == FALSE

\* `if (this.running) return`
alreadyRunning == running

\* start(): `void this.loop()` runs the new activation up to its first await
start ==
  /\ IF alreadyRunning
       THEN UNCHANGED <<running, repos, loop, cycles>>
       ELSE \E l \in Loops :
              /\ loop[l].pc = "none"
              /\ \A k \in Loops : k < l => loop[k].pc # "none"
              /\ running' = TRUE
              /\ \E clientOk \in BOOLEAN : BeginCycle(l, clientOk)
  /\ UNCHANGED <<tasks, agentRuns, workDirs, pulls, issues, call>>

stop ==
  /\ running' = FALSE
  /\ UNCHANGED <<repos, tasks, agentRuns, workDirs, pulls, loop, cycles, issues, call>>

\* `while (true)`: a loop that does not look at the flag
loopCondition_always == TRUE

\* `while (this.running)`
loopCondition == running

\* sleep() resolves: the while condition is evaluated again.
Wake(l) ==
  /\ loop[l].pc = "sleep"
  /\ IF loopCondition
       THEN \E clientOk \in BOOLEAN : BeginCycle(l, clientOk)
       ELSE /\ loop' = [loop EXCEPT ![l] = Returned]
            /\ UNCHANGED <<repos, cycles>>
  /\ UNCHANGED <<running, tasks, agentRuns, workDirs, pulls, issues, call>>

\* listIssues settles.
ListReturn(l) ==
  /\ loop[l].pc = "list"
  /\ \E ok \in BOOLEAN :
       IF ok
         THEN NextIssue(l)
         ELSE AbortRepo(l)
  /\ UNCHANGED <<running, tasks, agentRuns, workDirs, pulls, cycles, issues, call>>

\* ------------------------------------------------------------ handleIssue
\* the enum of column tasks.status, in its order
TaskStatuses == <<"todo", "in_progress", "completed", "failed">>

\* this.db.select().from(tasks).where(eq(tasks.githubIssueId, issue.number))
\* the rows that match; limit(1) without ORDER BY yields any one of them.
findExisting(ts, n) == {t \in 1..Len(ts) : ts[t].githubIssueId = n}

\* the status test without its `completed` arm
skipsIssue_inProgressOnly(status) == status = "in_progress"

\* the status test without its `in_progress` arm
skipsIssue_completedOnly(status) == status = "completed"

\* the status test that makes handleIssue return without dispatching
skipsIssue(status) == status \in {"in_progress", "completed"}

\* the retry branch whose update leaves `status` out
dispatchTask_statusKept(ts, existingTask, n, title, repoId) ==
  IF existingTask # 0 /\ ts[existingTask].status = "failed"
    THEN [tasks |-> [ts EXCEPT ![existingTask].repoId = repoId],
          taskId |-> existingTask]
    ELSE [tasks |-> Append(ts, [githubIssueId |-> n, repoId |-> repoId,
                                status |-> "in_progress", title |-> title,
                                prNumber |-> 0, prUrl |-> "null"]),
          taskId |-> Len(ts) + 1]

\* the retry / insert branch; existingTask = 0 stands for `undefined`
dispatchTask(ts, existingTask, n, title, repoId) ==
  IF existingTask # 0 /\ ts[existingTask].status = "failed"
    THEN [tasks |-> [ts EXCEPT ![existingTask].repoId = repoId,
                               ![existingTask].status = "in_progress"],
          taskId |-> existingTask]
    ELSE [tasks |-> Append(ts, [githubIssueId |-> n, repoId |-> repoId,
                                status |-> "in_progress", title |-> title,
                                prNumber |-> 0, prUrl |-> "null"]),
          taskId |-> Len(ts) + 1]

\* handleIssue from its first line to `await addIssueLabel(...)`
handleIssue(l) ==
  /\ loop[l].pc = "handle"
  /\ LET n == IssueAt(l)
         existing == findExisting(tasks, n)
     IN  \E existingTask \in (IF existing = {} THEN {0} ELSE existing) :
           IF existingTask # 0 /\ skipsIssue(tasks[existingTask].status)
             THEN /\ NextIssue(l)
                  /\ tasks' = tasks
             ELSE LET d == dispatchTask(tasks, existingTask, n, <<loop[l].ri, n>>,
                                        loop[l].repoId)
                  IN  /\ RunsStarted(agentRuns) < MaxRuns
                      /\ tasks' = d.tasks
                      /\ loop' = [loop EXCEPT ![l].pc = "label", ![l].taskId = d.taskId]
                      /\ repos' = repos
  /\ UNCHANGED <<running, agentRuns, workDirs, pulls, cycles, issues, call>>

\* a try/catch around a notification that lets the rejection through
notifyCatch_rethrows(ok) == ok

\* `try { await notify(...) } catch {}`, and `void notify(...).catch(() => {})`:
\* whether the caller goes on after the call settled, fulfilled (ok) or rejected
notifyCatch(ok) == TRUE

\* addIssueLabel settles
LabelSettles(l, ok) ==
  /\ loop[l].pc = "label"
  /\ IF notifyCatch(ok)
       THEN /\ loop' = [loop EXCEPT ![l].pc = "comment"]
            /\ repos' = repos
       ELSE AbortRepo(l)
  /\ UNCHANGED <<running, tasks, agentRuns, workDirs, pulls, cycles, issues, call>>

LabelReturn(l) == \E ok \in BOOLEAN : LabelSettles(l, ok)

\* ------------------------------------------------------------ the pipeline
\* a thrown `new Error(message)`
Error(message) == [isError |-> TRUE, message |-> message]

\* `err instanceof Error ? err.message : String(err)`
errorMsg(err) == IF err.isError THEN err.message ELSE "thrown"

\* What a row keeps of an error message: the tables of the model tell an
\* empty message from a non-empty one, and no more.
stored(message) == IF message = "" THEN "" ELSE "message"

prUrl(number) == "pull/" \o ToString(number)

\* the `null` of column agent_runs.output: an output is the sequence of its
\* non-empty parts (joinOutput), which this value is not
NullOutput == <<"">>

createAgentRun(ars, taskId) ==
  [agentRuns |-> Append(ars, [taskId |-> taskId, status |-> "running",
                              output |-> NullOutput, error |-> "null",
                              startedAt |-> "now", completedAt |-> FALSE]),
   runId |-> Len(ars) + 1]

\* recordFailure writing a status that is not in the enum of the column
recordFailure_errorStatus(ts, ars, taskId, runId, err) ==
  [tasks |-> [ts EXCEPT ![taskId].status = "error"],
   agentRuns |-> [ars EXCEPT ![runId].status = "failed", ![runId].error = stored(errorMsg(err)),
                             ![runId].completedAt = TRUE]]

\* recordFailure without its update of agent_runs
recordFailure_taskOnly(ts, ars, taskId, runId, err) ==
  [tasks |-> [ts EXCEPT ![taskId].status = "failed"], agentRuns |-> ars]

recordFailure(ts, ars, taskId, runId, err) ==
  [tasks |-> [ts EXCEPT ![taskId].status = "failed"],
   agentRuns |-> [ars EXCEPT ![runId].status = "failed", ![runId].error = stored(errorMsg(err)),
                             ![runId].completedAt = TRUE]]

\* the catch of runAgentForTask, after which handleIssue returns; the failure
\* comment is not awaited
Fail(l, ts, ars, runId, err) ==
  LET f == recordFailure(ts, ars, loop[l].taskId, runId, err)
  IN  /\ tasks' = f.tasks
      /\ agentRuns' = f.agentRuns
      /\ \E goesOn \in {notifyCatch(commentOk) : commentOk \in BOOLEAN} :
           IF goesOn THEN NextIssue(l) ELSE AbortRepo(l)

\* git clone --depth 1 <url> <targetDir>: refuses a target directory that
\* exists and is not empty
cloneRepo(dirs, dir, gitOk) ==
  IF gitOk /\ dir \notin dirs THEN [ok |-> TRUE, dirs |-> dirs \cup {dir}]
                              ELSE [ok |-> FALSE, dirs |-> dirs]

\* the progress comment settles; runAgentForTask runs createAgentRun and
\* prepareWorkDir, then prepareBranch up to `await createBranch(...)`
CommentSettles(l, commentOk, insertOk, gitOk) ==
  /\ loop[l].pc = "comment"
  /\ IF ~notifyCatch(commentOk) \/ ~insertOk
       THEN \* createAgentRun throws, outside the try of runAgentForTask
            /\ AbortRepo(l)
            /\ UNCHANGED <<tasks, agentRuns, workDirs>>
       ELSE LET c == createAgentRun(agentRuns, loop[l].taskId)
                g == cloneRepo(workDirs, repoDir(Repos[loop[l].ri], IssueAt(l)), gitOk)
            IN  IF g.ok
                  THEN /\ agentRuns' = c.agentRuns
                       /\ workDirs' = g.dirs
                       /\ loop' = [loop EXCEPT ![l].pc = "branch", ![l].runId = c.runId]
                       /\ UNCHANGED <<tasks, repos>>
                  ELSE /\ Fail(l, tasks, c.agentRuns, c.runId,
                               Error("git clone exited with code"))
                       /\ workDirs' = workDirs
  /\ UNCHANGED <<running, pulls, cycles, issues, call>>

CommentReturn(l) ==
  \E commentOk \in BOOLEAN, insertOk \in BOOLEAN, gitOk \in BOOLEAN :
    CommentSettles(l, commentOk, insertOk, gitOk)

\* ------------------------------------------------------------ AgentRunner
\* What spawnSync can return (node:child_process).  error: the message of
\* result.error, "null" without one; status: the exit code, -1 for `null`;
\* signal: the signal that ended the child, "null" without one; stdout and
\* stderr: the captured streams, "null" when the child was never started.
\* The status is null exactly when a signal ended the child or the child was
\* never started; a child that spawnSync kills (timeout, maxBuffer) dies of the
\* kill signal or handles it and exits with a code of its own.
SpawnOutcomes ==
  { s \in [error : {"null", "spawnSync claude ENOENT", "spawnSync claude ETIMEDOUT",
                    "spawnSync claude ENOBUFS"},
           status : {-1, 0, 1},
           signal : {"null", "SIGTERM"},
           stdout : {"null", "", "summary", "partial"},
           stderr : {"null", "", "boom"}] :
      IF s.error = "spawnSync claude ENOENT"
        THEN s.status = -1 /\ s.signal = "null" /\ s.stdout = "null" /\ s.stderr = "null"
        ELSE /\ s.stdout # "null"
             /\ s.stderr # "null"
             /\ s.status = -1 <=> s.signal # "null" }

\* the outcomes the pipeline of the Orchestrator is run with: success, exit
\* status 1, a spawn error, a timeout that kills the child, and death by a
\* signal without error
SpawnResults ==
  { [error |-> "null", status |-> 0, signal |-> "null",
     stdout |-> "summary", stderr |-> ""],
    [error |-> "null", status |-> 1, signal |-> "null",
     stdout |-> "", stderr |-> "boom"],
    [error |-> "spawnSync claude ENOENT", status |-> -1, signal |-> "null",
     stdout |-> "null", stderr |-> "null"],
    [error |-> "spawnSync claude ETIMEDOUT", status |-> -1, signal |-> "SIGTERM",
     stdout |-> "partial", stderr |-> ""],
    [error |-> "null", status |-> -1, signal |-> "SIGTERM",
     stdout |-> "", stderr |-> ""] }

\* `stream ?? ''`
orEmpty(stream) == IF stream = "null" THEN "" ELSE stream

\* [stdout, stderr].join('\n') without the filter, as the sequence of its parts
joinOutput_unfiltered(stdout, stderr) == <<stdout, stderr>>

\* [stdout, stderr].filter(Boolean).join('\n'), as the sequence of its parts
joinOutput(stdout, stderr) == SelectSeq(<<stdout, stderr>>, LAMBDA part : part # "")

\* Array.prototype.join: the parts in order, with the separator between each
\* two of them
RECURSIVE join(_, _)
join(parts, separator) ==
  IF parts = <<>> THEN ""
  ELSE IF Len(parts) = 1 THEN parts[1]
  ELSE parts[1] \o separator \o join(Tail(parts), separator)

\* the string `output` of an AgentResult, whose parts the model keeps
outputText(result) == join(result.output, "\n")

\* `Exit code ${exitCode ?? 'null'}`
exitCodeText(exitCode) ==
  "Exit code " \o (IF exitCode = -1 THEN "null" ELSE ToString(exitCode))

\* runAgent with the `throw result.error` of cloneRepo in its error branch
runAgent_throws(result) ==
  IF result.error # "null"
    THEN [isError |-> TRUE, message |-> result.error]
    ELSE [success |-> result.status = 0, exitCode |-> result.status,
          error |-> IF result.status = 0 THEN "undefined"
                    ELSE IF orEmpty(result.stderr) # "" THEN orEmpty(result.stderr)
                    ELSE exitCodeText(result.status),
          output |-> joinOutput(orEmpty(result.stdout), orEmpty(result.stderr))]

\* what runAgent returns for a result of spawnSync; error "undefined" stands
\* for the absent error of a success
runAgent(result) ==
  LET stdout == orEmpty(result.stdout)
      stderr == orEmpty(result.stderr)
      output == joinOutput(stdout, stderr)
  IN  IF result.error # "null"
        THEN [success |-> FALSE, exitCode |-> -1, error |-> result.error,
              output |-> output]
        ELSE LET exitCode == result.status
                 success == exitCode = 0
             IN  [success |-> success, exitCode |-> exitCode,
                  error |-> IF success THEN "undefined"
                            ELSE IF stderr # "" THEN stderr ELSE exitCodeText(exitCode),
                  output |-> output]

\* executeAgent without its test of result.success
executeAgent_unchecked(result) ==
  [ok |-> TRUE, thrown |-> Error(""), output |-> result.output]

\* executeAgent: throws unless the agent succeeded
executeAgent(result) ==
  IF ~result.success
    THEN [ok |-> FALSE,
          thrown |-> Error(IF result.error # "undefined" THEN result.error
                           ELSE "Agent exited with code"),
          output |-> result.output]
    ELSE [ok |-> TRUE, thrown |-> Error(""), output |-> result.output]

\* runAgent called on its own with what spawnSync returned
RunAgent ==
  /\ call.fn = "runAgent"
  /\ call.pc = "called"
  /\ LET result == runAgent(call.spawned)
     IN  call' = IF "isError" \in DOMAIN result
                   THEN [fn |-> "runAgent", pc |-> "threw", spawned |-> call.spawned,
                         thrown |-> result]
                   ELSE [fn |-> "runAgent", pc |-> "returned", spawned |-> call.spawned,
                         result |-> result]
  /\ UNCHANGED <<running, repos, tasks, agentRuns, workDirs, pulls, loop, cycles, issues>>

\* executeAgent after its call of runAgent returned
ExecuteAgent ==
  /\ call.fn = "runAgent"
  /\ call.pc = "returned"
  /\ call' = [fn |-> "runAgent", pc |-> "executed", spawned |-> call.spawned,
              result |-> call.result, executed |-> executeAgent(call.result)]
  /\ UNCHANGED <<running, repos, tasks, agentRuns, workDirs, pulls, loop, cycles, issues>>

\* RepoWatchConfig entries and issue numbers prepareWorkDir is called with:
\* GitHub owner and repository names may contain hyphens
WorkDirInputs ==
  [cfg : [owner : {"acme", "acme-api"}, repo : {"api", "web", "api-web"}, label : {"loom"}],
   n : {1, 2, 12}]

\* prepareWorkDir called on its own: the directory and the branch it computes
PrepareWorkDir ==
  /\ call.fn = "prepareWorkDir"
  /\ call.pc = "called"
  /\ call' = [fn |-> "prepareWorkDir", pc |-> "returned", cfg |-> call.cfg, n |-> call.n,
              repoDir |-> repoDir(call.cfg, call.n),
              branch |-> "loom/issue-" \o ToString(call.n)]
  /\ UNCHANGED <<running, repos, tasks, agentRuns, workDirs, pulls, loop, cycles, issues>>

\* From the settling of createBranch (its rejection is swallowed) to
\* `await createPullRequest(...)`: checkoutBranch, executeAgent, commitAndPush.
\* calls: the steps invoked, in order; ok: whether createPullRequest was
\* reached; thrown: the error that ended the segment otherwise.
branchSegment(checkoutOk, spawned, pushOk) ==
  IF ~checkoutOk
    THEN [calls |-> <<"checkoutBranch">>, ok |-> FALSE,
          thrown |-> Error("git checkout exited with code"), output |-> <<>>]
    ELSE LET result == executeAgent(runAgent(spawned))
         IN  IF ~result.ok
               THEN [calls |-> <<"checkoutBranch", "runAgent">>, ok |-> FALSE,
                     thrown |-> result.thrown, output |-> <<>>]
               ELSE IF ~pushOk
                 THEN [calls |-> <<"checkoutBranch", "runAgent", "commitAndPush">>,
                       ok |-> FALSE,
                       thrown |-> Error("git push exited with code"), output |-> <<>>]
                 ELSE [calls |-> <<"checkoutBranch", "runAgent", "commitAndPush",
                                   "createPullRequest">>,
                       ok |-> TRUE, thrown |-> Error(""), output |-> result.output]

BranchSegments ==
  {branchSegment(checkoutOk, spawned, pushOk) :
     checkoutOk \in BOOLEAN, spawned \in SpawnResults, pushOk \in BOOLEAN}

\* prepareBranch goes on after createBranch and the segment runs as `seg`
BranchSettles(l, seg) ==
  /\ loop[l].pc = "branch"
  /\ IF seg.ok
       THEN /\ loop' = [loop EXCEPT ![l].pc = "pr", ![l].output = seg.output]
            /\ UNCHANGED <<tasks, agentRuns, repos>>
       ELSE Fail(l, tasks, agentRuns, loop[l].runId, seg.thrown)
  /\ UNCHANGED <<running, workDirs, pulls, cycles, issues, call>>

\* a try/catch around createBranch that lets the rejection through
branchCatch_rethrows(ok) == ok

\* `try { await createBranch(...) } catch {}`: whether prepareBranch goes on
\* after createBranch settled, fulfilled (ok) or rejected
branchCatch(ok) == TRUE

\* prepareBranch and what follows it, from the settling of createBranch: the
\* segment `seg` when prepareBranch goes on, and else the rejection thrown
prepareBranch(createOk, seg) ==
  IF branchCatch(createOk)
    THEN seg
    ELSE [calls |-> <<>>, ok |-> FALSE, thrown |-> Error("Reference already exists"),
          output |-> <<>>]

\* createBranch settles, fulfilled (createOk) or rejected
CreateBranchSettles(l, createOk, seg) == BranchSettles(l, prepareBranch(createOk, seg))

BranchReturn(l) ==
  \E seg \in {prepareBranch(createOk, s) : createOk \in BOOLEAN, s \in BranchSegments} :
    BranchSettles(l, seg)

\* the status writes without the PR reference
markCompleted_noPr(ts, ars, taskId, runId, prNumber, output) ==
  [tasks |-> [ts EXCEPT ![taskId].status = "completed"],
   agentRuns |-> [ars EXCEPT ![runId].status = "completed", ![runId].output = output,
                             ![runId].completedAt = TRUE]]

\* the status writes that do not store the output of the agent
markCompleted_noOutput(ts, ars, taskId, runId, prNumber, output) ==
  [tasks |-> [ts EXCEPT ![taskId].prNumber = prNumber, ![taskId].prUrl = prUrl(prNumber),
                        ![taskId].status = "completed"],
   agentRuns |-> [ars EXCEPT ![runId].status = "completed", ![runId].completedAt = TRUE]]

\* the status writes that leave pr_url out
markCompleted_noUrl(ts, ars, taskId, runId, prNumber, output) ==
  [tasks |-> [ts EXCEPT ![taskId].prNumber = prNumber, ![taskId].status = "completed"],
   agentRuns |-> [ars EXCEPT ![runId].status = "completed", ![runId].output = output,
                             ![runId].completedAt = TRUE]]

\* the status writes without the update of agent_runs
markCompleted_taskOnly(ts, ars, taskId, runId, prNumber, output) ==
  [tasks |-> [ts EXCEPT ![taskId].prNumber = prNumber, ![taskId].prUrl = prUrl(prNumber),
                        ![taskId].status = "completed"],
   agentRuns |-> ars]

\* the two status writes that end submitPullRequest
markCompleted(ts, ars, taskId, runId, prNumber, output) ==
  [tasks |-> [ts EXCEPT ![taskId].prNumber = prNumber, ![taskId].prUrl = prUrl(prNumber),
                        ![taskId].status = "completed"],
   agentRuns |-> [ars EXCEPT ![runId].status = "completed", ![runId].output = output,
                             ![runId].completedAt = TRUE]]

\* createPullRequest settles; on success the status writes follow, up to the
\* `await addIssueComment(...)` of the closing comment
PrSettles(l, prOk, writes) ==
  /\ loop[l].pc = "pr"
  /\ IF ~prOk
       THEN /\ Fail(l, tasks, agentRuns, loop[l].runId, Error("createPullRequest rejected"))
            /\ pulls' = pulls
       ELSE LET m == markCompleted(tasks, agentRuns, loop[l].taskId, loop[l].runId,
                                   Len(pulls) + 1, loop[l].output)
            IN  /\ pulls' = Append(pulls, [taskId |-> loop[l].taskId,
                                           head |-> IssueAt(l)])
                /\ CASE writes = "ok" ->
                          /\ tasks' = m.tasks
                          /\ agentRuns' = m.agentRuns
                          /\ loop' = [loop EXCEPT ![l].pc = "closing"]
                          /\ repos' = repos
                     [] writes = "task_throws" ->
                          Fail(l, tasks, agentRuns, loop[l].runId, Error("SQLITE_BUSY"))
                     [] writes = "run_throws" ->
                          \* the Task row was written before the throw
                          Fail(l, m.tasks, agentRuns, loop[l].runId, Error("SQLITE_BUSY"))
  /\ UNCHANGED <<running, workDirs, cycles, issues, call>>

PrReturn(l) ==
  \E prOk \in BOOLEAN, writes \in {"ok", "task_throws", "run_throws"} :
    PrSettles(l, prOk, writes)

\* the closing comment settles; handleIssue returns
ClosingSettles(l, ok) ==
  /\ loop[l].pc = "closing"
  /\ IF notifyCatch(ok) THEN NextIssue(l) ELSE AbortRepo(l)
  /\ UNCHANGED <<running, tasks, agentRuns, workDirs, pulls, cycles, issues, call>>

ClosingReturn(l) == \E ok \in BOOLEAN : ClosingSettles(l, ok)

\* the length of the excerpt of the agent output in the body of a pull request
ExcerptLimit == 3000

\* String.prototype.slice without its end: the string from `start` on
slice_unbounded(str, from, to) == SubSeq(str, from + 1, Len(str))

\* String.prototype.slice(from, to) for 0 <= from <= to, on a string given as
\* the sequence of its UTF-16 code units
slice(str, from, to) ==
  SubSeq(str, from + 1, IF to < Len(str) THEN to ELSE Len(str))

\* the `body` that submitPullRequest passes to createPullRequest: the lines
\* before the excerpt of the agent output, the excerpt, and the lines after it
\* (joined with '\n' in the code); "<fence>" is the line of three backquotes
\* that opens and closes a Markdown code block
prBody(output, n) ==
  [before |-> <<"This PR was automatically generated by Loom to resolve issue #"
                  \o ToString(n) \o ".",
                "", "**Issue:** title", "", "**Agent output:**", "<fence>">>,
   excerpt |-> slice(output, 0, ExcerptLimit),
   after |-> <<"<fence>", "", "Closes #" \o ToString(n)>>]

\* lengths of the agent outputs submitPullRequest is called with (the agent
\* may write up to maxBuffer, 10 MB)
OutputLengths == {0, 1, 2999, 3000, 3001, 6000}

\* an agent output of n code units, each told from the others by its position
outputOf(n) == [i \in 1..n |-> i]

\* submitPullRequest called on its own with an agent output, for issue #1,
\* Task 1 and AgentRun 1: the body it sends and the AgentRun row it writes
SubmitPullRequest ==
  /\ call.fn = "submitPullRequest"
  /\ call.pc = "called"
  /\ LET ts == dispatchTask(<<>>, 0, 1, <<1, 1>>, 1).tasks
         ars == createAgentRun(<<>>, 1).agentRuns
         m == markCompleted(ts, ars, 1, 1, 1, call.output)
     IN  call' = [fn |-> "submitPullRequest", pc |-> "returned", output |-> call.output,
                  body |-> prBody(call.output, 1), row |-> m.agentRuns[1]]
  /\ UNCHANGED <<running, repos, tasks, agentRuns, workDirs, pulls, loop, cycles, issues>>

\* ================================================================ properties
\* a step in which loop l runs handleIssue from its first line
Reconciles(l) == loop[l].pc = "handle" /\ loop'[l] # loop[l]

\* a step in which runAgentForTask, called or in progress in loop l, ends
RunEnds(l) == loop[l].pc \in {"comment"} \cup RunPcs /\ loop'[l].pc \notin DispatchPcs

\* a step of loop l from the await named pc
StepsFrom(l, pc) == loop[l].pc = pc /\ loop'[l] # loop[l]

\* a step in which loop l runs createAgentRun for a Task that has an AgentRun
\* already: a Task is dispatched with AgentRuns only by the retry branch
RetryRunStarts(l) ==
  /\ loop[l].pc = "comment"
  /\ loop'[l] # loop[l]
  /\ RunsOf(agentRuns, loop[l].taskId) # {}

\* a step in which the listIssues awaited by loop l rejects
ListRejects(l) ==
  /\ loop[l].pc = "list"
  /\ AbortRepo(l)
  /\ UNCHANGED <<running, tasks, agentRuns, workDirs, pulls, cycles, issues, call>>

\* a step in which loop l begins a cycle whose poll() rejects
PollThrows(l) == loop[l].pc \in {"none", "sleep"} /\ BeginCycle(l, FALSE)

\* a step in which the catch of runAgentForTask in loop l records a failure:
\* the AgentRun of the attempt, created in this step or before, becomes failed
RecordsFailure(l) ==
  \/ /\ loop[l].pc \in RunPcs
     /\ agentRuns[loop[l].runId].status = "running"
     /\ agentRuns'[loop[l].runId].status = "failed"
  \/ /\ loop[l].pc = "comment"
     /\ loop'[l] # loop[l]
     /\ Len(agentRuns') = Len(agentRuns) + 1
     /\ agentRuns'[Len(agentRuns')].status = "failed"

\* no loop() activation is executing: none was started or each has returned
Quiescent == \A l \in Loops : loop[l].pc \in {"none", "done"}

\* C1 (Dedup): a handleIssue step for an issue that has a Task in status
\* in_progress or completed inserts no Task row.
Dedup ==
  [][\A l \in Loops :
       (/\ Reconciles(l)
        /\ \E t \in findExisting(tasks, IssueAt(l)) :
             tasks[t].status \in {"in_progress", "completed"})
       => Len(tasks') = Len(tasks)]_vars

\* a loop is past the first issue of a repository, which has a Task in
\* in_progress, and there is no AgentRun: handleIssue returned for that issue
\* without running the pipeline, which starts by inserting an AgentRun
DedupWitness ==
  \E l \in Loops :
    /\ loop[l].pc = "handle"
    /\ loop[l].ii = 2
    /\ agentRuns = <<>>
    /\ findExisting(tasks, issues[loop[l].ri][1]) # {}
    /\ \A t \in findExisting(tasks, issues[loop[l].ri][1]) : tasks[t].status = "in_progress"

\* C2 (Terminality): when runAgentForTask ends, by returning or by throwing,
\* its Task is completed or failed.
Terminality ==
  [][\A l \in Loops :
       RunEnds(l) => tasks'[loop[l].taskId].status \in {"completed", "failed"}]_vars

\* C3 (Retry): polling an issue whose Task is failed inserts no
\* Task row and sets that Task in_progress, and the attempt, at the step
\* that starts its run, adds exactly one AgentRun to those of the Task.
RetryOneMoreRun ==
  [][\A l \in Loops :
       /\ (Reconciles(l) /\ \E t \in findExisting(tasks, IssueAt(l)) : tasks[t].status = "failed")
          => /\ Len(tasks') = Len(tasks)
             /\ loop'[l].taskId \in findExisting(tasks, IssueAt(l))
             /\ tasks[loop'[l].taskId].status = "failed"
             /\ tasks'[loop'[l].taskId].status = "in_progress"
       /\ RetryRunStarts(l)
          => Cardinality(RunsOf(agentRuns', loop[l].taskId))
               = Cardinality(RunsOf(agentRuns, loop[l].taskId)) + 1]_vars

\* C4: no two loops are at the same time between the dispatch of one Task
\* and the end of its pipeline run.
NoConcurrentRuns ==
  \A l1 \in Loops, l2 \in Loops :
    (l1 # l2 /\ loop[l1].pc \in DispatchPcs /\ loop[l2].pc \in DispatchPcs)
      => loop[l1].taskId # loop[l2].taskId

\* while one loop runs the pipeline of the Task of an issue, with the only
\* AgentRun there is, another loop is past that issue in the same cycle: it
\* has reconciled the issue and has left its Task alone
NoConcurrentRunsWitness ==
  \E l1 \in Loops, l2 \in Loops :
    /\ l1 # l2
    /\ loop[l1].pc \in RunPcs
    /\ loop[l1].runId = 1
    /\ Len(agentRuns) = 1
    /\ loop[l2].pc = "handle"
    /\ loop[l2].ii = 2
    /\ tasks[loop[l1].taskId].githubIssueId = issues[loop[l2].ri][1]

\* C5: at most one poll cycle is executing at any time.
OneCycleAtATime ==
  \A l1 \in Loops, l2 \in Loops : (InCycle(l1) /\ InCycle(l2)) => l1 = l2

\* C6 (Isolation): when the pipeline of one issue fails, the loop goes on
\* with the next issue of the same repository, or after the last issue with
\* the next repository.
Isolation ==
  [][\A l \in Loops :
       (RunEnds(l) /\ loop[l].pc # "closing")
       => IF loop[l].ii < Len(issues[loop[l].ri])
            THEN /\ loop'[l].pc = "handle"
                 /\ loop'[l].ri = loop[l].ri
                 /\ loop'[l].ii = loop[l].ii + 1
            ELSE loop[l].ri < Len(Repos)
                   => loop'[l].pc = "list" /\ loop'[l].ri = loop[l].ri + 1]_vars

\* C7: a failed issue listing writes no Task and no AgentRun, and the loop
\* goes on with the next configured repository (after the last one the cycle
\* is complete).
ListFailureSkipsRepo ==
  [][\A l \in Loops :
       ListRejects(l)
       => /\ tasks' = tasks
          /\ agentRuns' = agentRuns
          /\ IF loop[l].ri < Len(Repos)
               THEN loop'[l].pc = "list" /\ loop'[l].ri = loop[l].ri + 1
               ELSE loop'[l].pc = "sleep"]_vars

\* a loop is listing the issues of the second repository and there is no Task,
\* though the first repository has an issue: its listing failed
ListFailureWitness ==
  \E l \in Loops :
    /\ loop[l].pc = "list"
    /\ loop[l].ri = 2
    /\ issues[1] # <<>>
    /\ tasks = <<>>

\* C8: a loop returns only from its sleep and only when running is false;
\* a cycle that ends, by returning or by throwing, leaves the loop asleep,
\* and a loop that wakes up while running is true begins a cycle.
LoopSurvivesErrors ==
  [][\A l \in Loops :
       /\ (loop[l].pc # "done" /\ loop'[l].pc = "done")
          => loop[l].pc = "sleep" /\ ~running
       /\ PollThrows(l) => loop'[l].pc = "sleep"
       /\ (InCycle(l) /\ ~InCycle(l)') => loop'[l].pc = "sleep"
       /\ (Wake(l) /\ running) => cycles' = cycles + 1]_vars

\* a loop is asleep after a cycle and no repository was ever entered: the
\* cycle threw; the orchestrator is running, with another cycle ahead
LoopSurvivesWitness ==
  \E l \in Loops :
    /\ loop[l].pc = "sleep"
    /\ cycles > 0
    /\ repos = <<>>
    /\ running
    /\ cycles < MaxCycles

\* C9: from a state in which running is true no loop() activation is
\* spawned, and a start() step changes nothing.
StartIdempotent ==
  [][running =>
       /\ \A l \in Loops : loop[l].pc = "none" => loop'[l].pc = "none"
       /\ start => UNCHANGED vars]_vars

\* start() can be called while running: a loop is active, and a second
\* activation and a further cycle are within the bounds
StartIdempotentWitness ==
  /\ running
  /\ cycles < MaxCycles
  /\ \E l \in Loops : loop[l].pc \notin {"none", "done"}
  /\ \E l \in Loops : loop[l].pc = "none"

\* C10: while running stays false no poll cycle begins, and once every loop
\* has returned after stop() no Task is left in_progress.
StopDrains ==
  /\ [][(~running /\ ~running') => cycles' = cycles]_vars
  /\ []((~running /\ Quiescent) => \A t \in 1..Len(tasks) : tasks[t].status # "in_progress")

\* C11: in the first cycle, which only one loop can have begun, every Task
\* there is belongs to an issue the loop dealt with earlier in the cycle, and
\* is in a terminal status when the loop begins to reconcile the next issue.
SequentialTerminal ==
  \A l \in Loops :
    (cycles = 1 /\ loop[l].pc = "handle")
      => \A t \in 1..Len(tasks) : tasks[t].status \in {"completed", "failed"}

\* C12: when no Task of the repository being processed has the number of the
\* issue, handleIssue finds no Task: it inserts one and leaves the Tasks of
\* the other repositories as they are.
LookupByRepo ==
  [][\A l \in Loops :
       (/\ Reconciles(l)
        /\ \A t \in findExisting(tasks, IssueAt(l)) : tasks[t].repoId # loop[l].repoId)
       => /\ Len(tasks') = Len(tasks) + 1
          /\ \A t \in 1..Len(tasks) : tasks'[t] = tasks[t]]_vars

\* C13: no two Tasks of one repository and one issue number are both in a
\* non-terminal status (todo or in_progress).
OneNonTerminalPerIssue ==
  \A t1 \in 1..Len(tasks), t2 \in 1..Len(tasks) :
    (/\ t1 # t2
     /\ tasks[t1].repoId = tasks[t2].repoId
     /\ tasks[t1].githubIssueId = tasks[t2].githubIssueId
     /\ tasks[t1].status \in {"todo", "in_progress"})
    => tasks[t2].status \notin {"todo", "in_progress"}

\* C14: a rejected notification changes nothing. After a rejected label the
\* loop awaits the progress comment; a step whose progress comment was rejected
\* is the step of a fulfilled one, and runs createAgentRun; a rejected closing
\* comment leaves the rows as written and handleIssue returns; and whatever
\* becomes of the failure comment, the step that records a failure leaves the
\* Task failed and goes on with the next issue.
NotificationsNonFatal ==
  [][\A l \in Loops :
       /\ (StepsFrom(l, "label") /\ LabelSettles(l, FALSE))
          => loop'[l].pc = "comment" /\ tasks' = tasks /\ agentRuns' = agentRuns
       /\ StepsFrom(l, "comment")
          => \A insertOk \in BOOLEAN, gitOk \in BOOLEAN :
               CommentSettles(l, FALSE, insertOk, gitOk)
               => /\ CommentSettles(l, TRUE, insertOk, gitOk)
                  /\ (insertOk => Len(agentRuns') = Len(agentRuns) + 1)
       /\ (StepsFrom(l, "closing") /\ ClosingSettles(l, FALSE))
          => /\ tasks' = tasks
             /\ agentRuns' = agentRuns
             /\ tasks[loop[l].taskId].status = "completed"
             /\ NextIssue(l)
       /\ RecordsFailure(l)
          => tasks'[loop[l].taskId].status = "failed" /\ NextIssue(l)]_vars

\* a loop awaits the progress comment, whose rejection is a step that starts
\* the pipeline: the AgentRun is created and the loop awaits createBranch
NotificationsWitness ==
  \E l \in Loops :
    /\ loop[l].pc = "comment"
    /\ ENABLED (/\ CommentSettles(l, FALSE, TRUE, TRUE)
                /\ loop'[l].pc = "branch"
                /\ Len(agentRuns') = Len(agentRuns) + 1)

SkipChangesNothing ==
  [][\A l \in Loops :
       (/\ Reconciles(l)
        /\ \E t \in findExisting(tasks, IssueAt(l)) :
             tasks[t].status \in {"completed", "in_progress"})
       => /\ tasks' = tasks
          /\ agentRuns' = agentRuns
          /\ workDirs' = workDirs
          /\ pulls' = pulls
          /\ loop'[l].pc \notin DispatchPcs]_vars

\* the only loop there is has gone past the first issue of a repository in a
\* cycle later than the one that made the Task of the second issue; the Task
\* of the first issue is completed and has one AgentRun, so that it was
\* completed before this cycle, which found it completed
SkipChangesNothingWitness ==
  \E l \in Loops :
    /\ \A k \in Loops \ {l} : loop[k].pc = "none"
    /\ loop[l].pc = "handle"
    /\ loop[l].ii = 2
    /\ findExisting(tasks, IssueAt(l)) # {}
    /\ \E t \in findExisting(tasks, issues[loop[l].ri][1]) :
         /\ tasks[t].status = "completed"
         /\ Cardinality(RunsOf(agentRuns, t)) = 1

\* C17: from one state to the next a Task row keeps its status or changes it
\* by one of the allowed changes, a new row is in_progress, and a step that
\* has written `completed` to a Task leaves it completed.
TaskTransitions ==
  [][/\ Len(tasks') >= Len(tasks)
     /\ \A t \in 1..Len(tasks) :
          \/ tasks'[t].status = tasks[t].status
          \/ <<tasks[t].status, tasks'[t].status>>
               \in { <<"in_progress", "completed">>, <<"in_progress", "failed">>,
                     <<"failed", "in_progress">> }
     /\ \A t \in (Len(tasks) + 1)..Len(tasks') : tasks'[t].status = "in_progress"
     /\ \A l \in Loops, writes \in {"ok", "run_throws"} :
          (StepsFrom(l, "pr") /\ PrSettles(l, TRUE, writes))
          => tasks'[loop[l].taskId].status = "completed"]_vars

PipelineSteps == <<"checkoutBranch", "runAgent", "commitAndPush", "createPullRequest">>

AgentNeverThrows ==
  call.fn = "runAgent"
  => /\ call.pc # "threw"
     /\ call.pc \in {"returned", "executed"}
        => /\ DOMAIN call.result = {"success", "exitCode", "error", "output"}
           /\ (call.spawned.error # "null" \/ call.spawned.status # 0)
              => ~call.result.success
           /\ Len(call.result.output) <= 2
           /\ \A i \in 1..Len(call.result.output) :
                call.result.output[i] \notin {"", "null", "undefined"}

\* runAgent has returned for a child that could not be started, whose streams
\* are null: the result is a failure with the spawn error and its output is
\* the empty string
AgentNeverThrowsWitness ==
  /\ call.fn = "runAgent"
  /\ call.pc = "returned"
  /\ call.spawned.error = "spawnSync claude ENOENT"
  /\ call.spawned.stdout = "null"
  /\ ~call.result.success
  /\ call.result.error = "spawnSync claude ENOENT"
  /\ call.result.output = <<>>

\* C22: the result of runAgent has success true exactly when the child exited
\* with code 0, whatever the error and the signal that spawnSync reports.
SuccessIffExitZero ==
  (call.fn = "runAgent" /\ call.pc = "returned")
  => (call.result.success <=> call.spawned.status = 0)

\* C23: for a child that exceeded the timeout runAgent returns success false
\* with error "timeout", and executeAgent throws, so that the Task of the run
\* is recorded as failed.
TimeoutResult ==
  (/\ call.fn = "runAgent"
   /\ call.pc \in {"returned", "executed"}
   /\ call.spawned.error = "spawnSync claude ETIMEDOUT")
  => /\ ~call.result.success
     /\ call.result.error = "timeout"
     /\ call.pc = "executed" => ~call.executed.ok

\* C24: no two rows of repos have the same owner and name; the row of a
\* repository being processed is the row of its configuration entry; and a
\* step deletes and modifies no row, and inserts none when it enters a
\* repository that has its row.
OneRepoRow ==
  /\ [](\A i \in 1..Len(repos), j \in 1..Len(repos) :
          (repos[i].owner = repos[j].owner /\ repos[i].name = repos[j].name) => i = j)
  /\ [](\A l \in Loops :
          InCycle(l)
          => /\ loop[l].repoId \in 1..Len(repos)
             /\ repos[loop[l].repoId].owner = Repos[loop[l].ri].owner
             /\ repos[loop[l].repoId].name = Repos[loop[l].ri].repo)
  /\ [][/\ Len(repos') >= Len(repos)
        /\ \A i \in 1..Len(repos) : repos'[i] = repos[i]
        /\ \A l \in Loops :
             (/\ loop'[l].pc = "list"
              /\ loop'[l] # loop[l]
              /\ \E i \in 1..Len(repos) : /\ repos[i].owner = Repos[loop'[l].ri].owner
                                          /\ repos[i].name = Repos[loop'[l].ri].repo)
             => repos' = repos]_vars

\* in the second cycle a loop has entered the first repository again, and
\* each of the two configured repositories has the one row of the first cycle
OneRepoRowWitness ==
  \E l \in Loops :
    /\ cycles = 2
    /\ loop[l].pc = "list"
    /\ loop[l].ri = 1
    /\ loop[l].repoId = 1
    /\ Len(repos) = Len(Repos)

RetryLimit ==
  [][\A l \in Loops :
       Reconciles(l)
       => \A t \in findExisting(tasks, IssueAt(l)) :
            (/\ tasks[t].status = "failed"
             /\ Cardinality({r \in RunsOf(agentRuns, t) : agentRuns[r].status = "failed"}) > 3)
            => /\ tasks'[t].status = "failed"
               /\ loop'[l].pc \notin DispatchPcs]_vars

\* C27: a retry of a Task in which git, the agent, the push and the creation
\* of the pull request work ends completed: when the clone command works the
\* run goes on to the branch step, from there to createPullRequest when
\* checkout, agent and push work, and from there to completed.
RetryCanSucceed ==
  [][\A l \in Loops :
       /\ (RetryRunStarts(l) /\ \E commentOk \in BOOLEAN : CommentSettles(l, commentOk, TRUE, TRUE))
          => loop'[l].pc = "branch"
       /\ (/\ StepsFrom(l, "branch")
           /\ Cardinality(RunsOf(agentRuns, loop[l].taskId)) > 1
           /\ \E createOk \in BOOLEAN :
                CreateBranchSettles(l, createOk,
                                    branchSegment(TRUE, [error |-> "null", status |-> 0,
                                                         signal |-> "null", stdout |-> "summary",
                                                         stderr |-> ""], TRUE)))
          => loop'[l].pc = "pr"
       /\ (/\ StepsFrom(l, "pr")
           /\ Cardinality(RunsOf(agentRuns, loop[l].taskId)) > 1
           /\ PrSettles(l, TRUE, "ok"))
          => tasks'[loop[l].taskId].status = "completed"]_vars

\* C28: a rejected createBranch changes nothing: the step is the one of a
\* fulfilled createBranch; when the checkout then works the run goes on (to
\* createPullRequest when the agent and the push work too), and the Task is
\* failed at the branch step only by a failed checkout.
BranchFailureTolerated ==
  /\ (\A checkoutOk \in BOOLEAN, spawned \in SpawnResults, pushOk \in BOOLEAN :
          LET seg == branchSegment(checkoutOk, spawned, pushOk)
          IN  /\ Len(seg.calls) = 1 <=> ~checkoutOk
              /\ (checkoutOk /\ spawned.error = "null" /\ spawned.status = 0 /\ pushOk)
                 => seg.ok)
  /\ [][\A l \in Loops :
          StepsFrom(l, "branch")
          => \A seg \in BranchSegments :
               CreateBranchSettles(l, FALSE, seg)
               => /\ CreateBranchSettles(l, TRUE, seg)
                  /\ seg.ok => loop'[l].pc = "pr"
                  /\ Len(seg.calls) = 1 => tasks'[loop[l].taskId].status = "failed"]_vars

\* a loop awaits createBranch, whose rejection is a step that goes on to
\* createPullRequest when checkout, agent and push work
BranchFailureWitness ==
  \E l \in Loops :
    /\ loop[l].pc = "branch"
    /\ ENABLED (/\ CreateBranchSettles(l, FALSE,
                      branchSegment(TRUE, [error |-> "null", status |-> 0, signal |-> "null",
                                           stdout |-> "summary", stderr |-> ""], TRUE))
                /\ loop'[l].pc = "pr")

\* C29: the directory that prepareWorkDir computes for an owner, a repository
\* and an issue number is the directory of no other owner, repository and
\* issue number.
WorkDirUnique ==
  (call.fn = "prepareWorkDir" /\ call.pc = "returned")
  => \A w \in WorkDirInputs :
       <<w.cfg.owner, w.cfg.repo, w.n>> # <<call.cfg.owner, call.cfg.repo, call.n>>
       => repoDir(w.cfg, w.n) # call.repoDir

\* C30: in one poll cycle no Task gets more than one AgentRun. In the first
\* cycle of an engine started on an empty store every AgentRun there is was
\* created by that cycle.
OncePerCycle ==
  cycles = 1
  => \A t \in 1..Len(tasks) : Cardinality(RunsOf(agentRuns, t)) <= 1

\* a Task in in_progress whose pipeline no loop() activation is running
Orphaned(t) ==
  /\ tasks[t].status = "in_progress"
  /\ \A k \in Loops : ~(loop[k].pc \in DispatchPcs /\ loop[k].taskId = t)

\* C31: a Task left in in_progress by a run whose process exited is taken up
\* again by the poll cycles of the restarted engine: the handleIssue step for
\* its issue dispatches it or leaves it completed or failed.
InterruptedTaskRecovered ==
  [][\A l \in Loops :
       Reconciles(l)
       => \A t \in findExisting(tasks, IssueAt(l)) :
            Orphaned(t)
            => \/ tasks'[t].status \in {"completed", "failed"}
               \/ loop'[l].pc \in DispatchPcs /\ loop'[l].taskId = t]_vars

\* a step in which loop l leaves processRepo for a repository whose issue
\* listing succeeded: the for loop over its issues ended or was abandoned
LeavesListedRepo(l) ==
  /\ loop[l].pc \in CyclePcs \ {"list"}
  /\ loop'[l].ri # loop[l].ri

\* C32: in a poll cycle in which the issue listing of a repository succeeds,
\* every issue listed gets a Task, whatever happens to the issues listed
\* before it: when the loop leaves the repository, each of its issues has one.
ListedIssuesDispatched ==
  [][\A l \in Loops :
       LeavesListedRepo(l)
       => \A i \in 1..Len(issues[loop[l].ri]) :
            findExisting(tasks', issues[loop[l].ri][i]) # {}]_vars

CompletedHasPullRequest ==
  \A t \in 1..Len(tasks) :
    /\ tasks[t].status = "completed"
       => /\ tasks[t].prNumber \in 1..Len(pulls)
          /\ pulls[tasks[t].prNumber].taskId = t
          /\ tasks[t].prUrl = prUrl(tasks[t].prNumber)
          /\ tasks[t].prUrl # "null"
    /\ (\A p \in 1..Len(pulls) : pulls[p].taskId # t)
       => tasks[t].prNumber = 0 /\ tasks[t].prUrl = "null"

\* one Task is completed with the pull request opened for it, and another
\* Task, whose run failed before any pull request was opened, has none
CompletedWitness ==
  \E t1 \in 1..Len(tasks), t2 \in 1..Len(tasks) :
    /\ tasks[t1].status = "completed"
    /\ tasks[t1].prNumber = 1
    /\ tasks[t2].status = "failed"
    /\ RunsOf(agentRuns, t2) # {}
    /\ \A p \in 1..Len(pulls) : pulls[p].taskId # t2
    /\ tasks[t2].prNumber = 0

\* C35: at most one pull request is opened for a Task, over all of its
\* retries: no two pull requests are of the same Task, and a handleIssue step
\* dispatches no Task for which a pull request was opened.
PullRequestOnce ==
  /\ [](\A p1 \in 1..Len(pulls), p2 \in 1..Len(pulls) :
          pulls[p1].taskId = pulls[p2].taskId => p1 = p2)
  /\ [][\A l \in Loops :
          (Reconciles(l) /\ loop'[l].pc \in DispatchPcs)
          => \A p \in 1..Len(pulls) : pulls[p].taskId # loop'[l].taskId]_vars

\* a step in which handleIssue in loop l dispatches a Task through its retry
\* branch: a Task is dispatched and no row is inserted
RetryDispatches(l) ==
  /\ Reconciles(l)
  /\ loop'[l].pc \in DispatchPcs
  /\ Len(tasks') = Len(tasks)

\* C36: the retry dispatch of a failed Task changes its status, to
\* in_progress, and nothing else: its id, githubIssueId, title and repoId,
\* and every other Task row, are as before.
RetryChangesStatusOnly ==
  [][\A l \in Loops :
       RetryDispatches(l)
       => tasks' = [tasks EXCEPT ![loop'[l].taskId].status = "in_progress"]]_vars

\* a loop() activation waits to dispatch a Task and the model has inserted
\* all the AgentRuns its bound allows: the model goes no further
RunsExhausted ==
  \E l \in Loops : loop[l].pc = "handle" /\ ~ENABLED handleIssue(l)

\* C37: after stop() with no later start(), the loop() activation returns
\* (when every awaited call and sleep settles): from a state in which running
\* is false, a state is reached in which no activation is executing.
StopTerminates == ~running ~> (Quiescent \/ RunsExhausted)

\* the Orchestrator was stopped while its loop awaited the agent of a
\* pipeline, which then completed the Task; the loop has returned at the end
\* of the sleep that followed that cycle
StopTerminatesWitness ==
  /\ ~running
  /\ Quiescent
  /\ loop[1].pc = "done"
  /\ cycles = 1
  /\ \E t \in 1..Len(tasks) : tasks[t].status = "completed"

\* C38: the body of the pull request holds a bounded excerpt of the agent
\* output, at most its first 3000 characters, whatever the length of the
\* output, and the AgentRun row holds the output in full.
ExcerptBounded ==
  (call.fn = "submitPullRequest" /\ call.pc = "returned")
  => /\ Len(call.body.excerpt) <= 3000
     /\ Len(call.body.excerpt) <= Len(call.output)
     /\ \A i \in 1..Len(call.body.excerpt) : call.body.excerpt[i] = call.output[i]
     /\ call.row.output = call.output

\* submitPullRequest has returned for an output of more than 3000 characters:
\* the body holds 3000 of them and the row all of them
ExcerptWitness ==
  /\ call.fn = "submitPullRequest"
  /\ call.pc = "returned"
  /\ Len(call.output) > 3000
  /\ Len(call.body.excerpt) = 3000
  /\ Len(call.row.output) = Len(call.output)

\* C39 as stated: the output of runAgent is the captured stdout followed at
\* once by the captured stderr, whichever of them is empty.
OutputIsConcatenation ==
  (call.fn = "runAgent" /\ call.pc = "returned")
  => outputText(call.result) = orEmpty(call.spawned.stdout) \o orEmpty(call.spawned.stderr)

\* C39 as amended: the output of runAgent is the captured stdout followed by
\* the captured stderr, with one newline between them when neither is empty
\* and nothing added when either is.
OutputIsJoined ==
  (call.fn = "runAgent" /\ call.pc = "returned")
  => LET stdout == orEmpty(call.spawned.stdout)
         stderr == orEmpty(call.spawned.stderr)
     IN  outputText(call.result) =
           IF stdout # "" /\ stderr # "" THEN stdout \o "\n" \o stderr
           ELSE stdout \o stderr

\* runAgent has returned for a child that wrote to both streams
OutputJoinedWitness ==
  /\ call.fn = "runAgent"
  /\ call.pc = "returned"
  /\ call.spawned.stdout = "summary"
  /\ call.spawned.stderr = "boom"
  /\ outputText(call.result) = "summary\nboom"

\* ------------------------------------------------------------ specification
Init ==
  /\ running = FALSE
  /\ repos = <<>>
  /\ tasks = <<>>
  /\ agentRuns = <<>>
  /\ workDirs = {}
  /\ pulls = <<>>
  /\ loop = [l \in Loops |-> NoLoop]
  /\ cycles = 0
  /\ issues \in Listings
  /\ call = NoCall

\* an AgentRun that an earlier run of the engine closed as failed
FailedEarlier(taskId) ==
  [taskId |-> taskId, status |-> "failed", output |-> NullOutput, error |-> "message",
   startedAt |-> "earlier", completedAt |-> TRUE]

\* an AgentRun of an earlier run of the engine whose process exited (SIGINT,
\* SIGTERM: stop(), sqlite.close(), process.exit(0)) while the pipeline was
\* in flight
Interrupted(taskId) ==
  [taskId |-> taskId, status |-> "running", output |-> NullOutput, error |-> "null",
   startedAt |-> "earlier", completedAt |-> FALSE]

\* Store contents the engine can be started on: an empty store; the first
\* repository with a Task for its issue #1 in the status that the schema gives
\* a row inserted without one (`todo`); that repository and Task as an
\* earlier run of the engine left them after four failed attempts; or as an
\* earlier run left them when its process exited during the pipeline.
InitialStores ==
  { [repos |-> <<>>, tasks |-> <<>>, agentRuns |-> <<>>],
    [repos |-> <<[owner |-> Repos[1].owner, name |-> Repos[1].repo,
                  watchLabel |-> Repos[1].label]>>,
     tasks |-> <<[githubIssueId |-> 1, repoId |-> 1, status |-> "todo",
                  title |-> <<1, 1>>, prNumber |-> 0, prUrl |-> "null"]>>,
     agentRuns |-> <<>>],
    [repos |-> <<[owner |-> Repos[1].owner, name |-> Repos[1].repo,
                  watchLabel |-> Repos[1].label]>>,
     tasks |-> <<[githubIssueId |-> 1, repoId |-> 1, status |-> "failed",
                  title |-> <<1, 1>>, prNumber |-> 0, prUrl |-> "null"]>>,
     agentRuns |-> <<FailedEarlier(1), FailedEarlier(1), FailedEarlier(1),
                     FailedEarlier(1)>>],
    [repos |-> <<[owner |-> Repos[1].owner, name |-> Repos[1].repo,
                  watchLabel |-> Repos[1].label]>>,
     tasks |-> <<[githubIssueId |-> 1, repoId |-> 1, status |-> "in_progress",
                  title |-> <<1, 1>>, prNumber |-> 0, prUrl |-> "null"]>>,
     agentRuns |-> <<Interrupted(1)>>] }

InitStore ==
  /\ running = FALSE
  /\ \E store \in InitialStores :
       repos = store.repos /\ tasks = store.tasks /\ agentRuns = store.agentRuns
  /\ workDirs = {}
  /\ pulls = <<>>
  /\ loop = [l \in Loops |-> NoLoop]
  /\ cycles = 0
  /\ issues \in Listings
  /\ call = NoCall

Next ==
  \/ start
  \/ stop
  \/ \E l \in Loops : Wake(l)
  \/ \E l \in Loops : ListReturn(l)
  \/ \E l \in Loops : handleIssue(l)
  \/ \E l \in Loops : LabelReturn(l)
  \/ \E l \in Loops : CommentReturn(l)
  \/ \E l \in Loops : BranchReturn(l)
  \/ \E l \in Loops : PrReturn(l)
  \/ \E l \in Loops : ClosingReturn(l)

Spec == Init /\ [][Next]_vars

\* the engine started on any of the initial stores
SpecStore == InitStore /\ [][Next]_vars

\* a step of the loop() activation l: the promise it awaits settles and its
\* continuation runs to the next await
LoopStep(l) ==
  \/ Wake(l)
  \/ ListReturn(l)
  \/ handleIssue(l)
  \/ LabelReturn(l)
  \/ CommentReturn(l)
  \/ BranchReturn(l)
  \/ PrReturn(l)
  \/ ClosingReturn(l)

\* main() calls start() once, after constructing the Orchestrator
startOnce ==
  /\ \A l \in Loops : loop[l].pc = "none"
  /\ start

\* the Orchestrator as main() uses it: started once, stopped at any time
NextOnce ==
  \/ startOnce
  \/ stop
  \/ \E l \in Loops : LoopStep(l)

\* Every awaited call and every sleep settles, and the event loop runs the
\* continuation of each settled promise: no activation waits for ever at an
\* await.  Nothing makes a caller call start() or stop().
SpecFair == Init /\ [][NextOnce]_vars /\ \A l \in Loops : WF_vars(LoopStep(l))

\* A function of the engine called on its own, with each of its inputs.
InitFn ==
  /\ running = FALSE
  /\ repos = <<>>
  /\ tasks = <<>>
  /\ agentRuns = <<>>
  /\ workDirs = {}
  /\ pulls = <<>>
  /\ loop = [l \in Loops |-> NoLoop]
  /\ cycles = 0
  /\ issues = << <<>>, <<>> >>
  /\ call \in {[fn |-> "runAgent", pc |-> "called", spawned |-> s] : s \in SpawnOutcomes}
             \cup {[fn |-> "prepareWorkDir", pc |-> "called", cfg |-> w.cfg, n |-> w.n] :
                      w \in WorkDirInputs}
             \cup {[fn |-> "submitPullRequest", pc |-> "called", output |-> outputOf(n)] :
                      n \in OutputLengths}

NextFn ==
  \/ RunAgent
  \/ ExecuteAgent
  \/ PrepareWorkDir
  \/ SubmitPullRequest

SpecFn == InitFn /\ [][NextFn]_vars
====
